---- MODULE Spec2Model ----
(***************************************************************************)
(* Foodgram backend: the relational store (recipes, ingredients, the       *)
(* favorite / shopping-cart / subscription relations) and the request      *)
(* handlers of api/views.py and api/serializers.py that read and write it. *)
(*                                                                         *)
(* A table without a database uniqueness guarantee of its own is a bag of  *)
(* rows, so that "at most one row" is something the handlers establish.    *)
(* Primary keys are opaque: a row of Recipe or Ingredient is named by its  *)
(* key, and a key is reused only after every row referring to it is gone.  *)
(* Every request is made by an authenticated user; the Django admin site   *)
(* is outside the model.                                                   *)
(***************************************************************************)
EXTENDS Integers, Sequences, FiniteSets, Bags, TLC

\* ------------------------------------------------------------------ bounds

\* Recipes a store may hold.
NumRecipes == 2
\* Ingredient rows a store may hold.
MaxIngredients == 2
\* Largest amount a request submits for one ingredient.
MaxAmount == 2
\* Longest ingredient list one recipe request submits.
MaxSpecs == 2
\* Seconds the clock may advance.
MaxTime == 2
\* Longest list of tag ids validate_tags is given.
MaxTagIds == 3

\* Longest username validate_username is given, in characters.
MaxNameLen == 3

\* The users that have registered.
Users == {"ann", "bob"}
\* A primary key that names no row.
NoSuchPk == NumRecipes + 1

\* The workers of the application server: each handles one request at a
\* time.
Workers == {1, 2}

\* Ingredient names and units the data file may hold.
Names == {"salt", "sugar"}
Units == {"g", "kg"}

\* The primary keys of the Tag rows, and a key that names no Tag.
TagPks == {"breakfast", "dinner"}
NoSuchTag == "nothing"

VARIABLES
    users,              \* User: the accounts that exist
    staff,              \* users with is_staff or is_superuser set
    ingredients,        \* Ingredient: pk -> [name, measure_unit]
    tags,               \* Tag: the primary keys of its rows
    recipes,            \* Recipe: pk -> [author, cooking_time]
    recipe_tags,        \* Recipe.tags through table: set of [recipe, tag]
    recipe_ingredients, \* RecipeIngredient: bag of [recipe, ingredient, amount]
    favorites,          \* Favorite: bag of [user, recipe]
    carts,              \* ShoppingCart: bag of [user, recipe]
    subscriptions,      \* Subscription: bag of [user, author]
    media,              \* media/recipes/: the seconds that name its files
    now,                \* datetime.now(), in seconds
    inflight,           \* worker -> the request it is in the middle of
    resp                \* the last request and the response it got

vars == <<users, staff, ingredients, tags, recipes, recipe_tags,
          recipe_ingredients, favorites, carts, subscriptions,
          media, now, inflight, resp>>

\* The database.
store == <<users, staff, ingredients, tags, recipes, recipe_tags,
           recipe_ingredients, favorites, carts, subscriptions>>

\* The tables and files the relation handlers never write.
catalogue == <<users, staff, ingredients, tags, recipes, recipe_tags,
               recipe_ingredients, media, now>>

\* ----------------------------------------------------------------- helpers

Row(u, r) == [user |-> u, recipe |-> r]

Follow(u, a) == [user |-> u, author |-> a]

One(row) == SetToBag({row})

\* QuerySet.filter(...).delete(): every copy of the row goes.
DeleteAllCopies(table, row) ==
    [x \in (DOMAIN table) \ {row} |-> table[x]]

Response(op, method, u, pk, status, body) ==
    [op |-> op, method |-> method, user |-> u, pk |-> pk,
     status |-> status, body |-> body]

NoResponse == Response("none", "", "", NoSuchPk, 0, <<>>)

\* A worker between two requests, and the server with every worker so.
Idle == [op |-> "none"]

NoRequests == [w \in Workers |-> Idle]

\* Manager.get_or_create(**kwargs): the table afterwards and the created flag;
\* several matching rows raise MultipleObjectsReturned.
get_or_create_always(table, row) ==
    [objects |-> table (+) One(row), created |-> TRUE, error |-> FALSE]

get_or_create(table, row) ==
    IF CopiesIn(row, table) > 1
    THEN [objects |-> table, created |-> FALSE, error |-> TRUE]
    ELSE IF CopiesIn(row, table) = 1
    THEN [objects |-> table, created |-> FALSE, error |-> FALSE]
    ELSE [objects |-> table (+) One(row), created |-> TRUE, error |-> FALSE]

\* IsAuthorAdminModeratorOrReadOnly.has_object_permission
has_permission_only(u, method, obj) ==
    \/ method \in {"GET", "HEAD", "OPTIONS"}
    \/ u \in users

has_object_permission(u, method, obj) ==
    \/ method \in {"GET", "HEAD", "OPTIONS"}
    \/ obj.author = u
    \/ u \in staff

\* --------------------------------------------------------------- relations

\* RecipeViewSet.favorite, POST: 200 when the row was created, else 400.
favorite_post_status_always_ok(got) ==
    IF got.error THEN 500 ELSE 200

favorite_post_status(got) ==
    IF got.error THEN 500 ELSE IF got.created THEN 200 ELSE 400

\* UserViewSet.subscribe: the test author != user.
not_self_unchecked(author, user) == TRUE

not_self(author, user) == author # user

\* RecipeViewSet.favorite
favorite(u, pk, method) ==
    /\ method \in {"POST", "DELETE"}
    /\ UNCHANGED <<catalogue, inflight, carts, subscriptions>>
    /\ IF pk \notin DOMAIN recipes
       THEN /\ resp' = Response("favorite", method, u, pk, 404, <<>>)
            /\ UNCHANGED favorites
       ELSE IF ~has_object_permission(u, method, recipes[pk])
       THEN /\ resp' = Response("favorite", method, u, pk, 403, <<>>)
            /\ UNCHANGED favorites
       ELSE IF method = "POST"
       THEN LET got == get_or_create(favorites, Row(u, pk))
            IN  /\ favorites' = got.objects
                /\ resp' = Response("favorite", method, u, pk,
                                    favorite_post_status(got), <<>>)
       ELSE IF CopiesIn(Row(u, pk), favorites) = 1
       THEN /\ favorites' = favorites (-) One(Row(u, pk))
            /\ resp' = Response("favorite", method, u, pk, 200, <<>>)
       ELSE /\ UNCHANGED favorites
            /\ resp' = Response("favorite", method, u, pk,
                                IF CopiesIn(Row(u, pk), favorites) = 0
                                THEN 204 ELSE 500,
                                <<>>)

\* RecipeViewSet.shopping_cart
shopping_cart(u, pk, method) ==
    /\ method \in {"POST", "DELETE"}
    /\ UNCHANGED <<catalogue, inflight, favorites, subscriptions>>
    /\ IF pk \notin DOMAIN recipes
       THEN /\ resp' = Response("shopping_cart", method, u, pk, 404, <<>>)
            /\ UNCHANGED carts
       ELSE IF method = "POST"
       THEN LET got == get_or_create(carts, Row(u, pk))
            IN  /\ carts' = got.objects
                /\ resp' = Response("shopping_cart", method, u, pk,
                                    IF got.error THEN 500 ELSE 200, <<>>)
       ELSE /\ carts' = DeleteAllCopies(carts, Row(u, pk))
            /\ resp' = Response("shopping_cart", method, u, pk, 204, <<>>)

\* UserViewSet.subscribe
subscribe(u, pk, method) ==
    /\ method \in {"POST", "DELETE"}
    /\ UNCHANGED <<catalogue, inflight, favorites, carts>>
    /\ IF pk \notin users
       THEN /\ resp' = Response("subscribe", method, u, pk, 404, <<>>)
            /\ UNCHANGED subscriptions
       ELSE IF ~not_self(pk, u)
       THEN /\ resp' = Response("subscribe", method, u, pk, 400, <<>>)
            /\ UNCHANGED subscriptions
       ELSE IF method = "POST"
       THEN LET got == get_or_create(subscriptions, Follow(u, pk))
            IN  /\ subscriptions' = got.objects
                /\ resp' = Response("subscribe", method, u, pk,
                                    IF got.error THEN 500 ELSE 200, <<>>)
       ELSE /\ subscriptions' = DeleteAllCopies(subscriptions, Follow(u, pk))
            /\ resp' = Response("subscribe", method, u, pk, 204, <<>>)

\* ------------------------------------------------------- the relation spec

\* A store in which NumRecipes recipes have been published, by ann and bob
\* in turn, none of them with ingredient rows, and nobody is staff.
PublishedRecipes ==
    [pk \in 1..NumRecipes |->
        [author |-> IF pk % 2 = 1 THEN "ann" ELSE "bob",
         cooking_time |-> 1]]

InitRelations ==
    /\ users = Users
    /\ staff = {}
    /\ ingredients = <<>>
    /\ tags = {}
    /\ recipes = PublishedRecipes
    /\ recipe_tags = {}
    /\ recipe_ingredients = EmptyBag
    /\ media = {}
    /\ now = 0
    /\ favorites = EmptyBag
    /\ carts = EmptyBag
    /\ subscriptions = EmptyBag
    /\ resp = NoResponse
    /\ inflight = NoRequests

RecipePks == (1..NumRecipes) \cup {NoSuchPk}

Favorite == \E u \in users, pk \in RecipePks, m \in {"POST", "DELETE"} :
                favorite(u, pk, m)

ShoppingCart == \E u \in users, pk \in RecipePks, m \in {"POST", "DELETE"} :
                    shopping_cart(u, pk, m)

Subscribe == \E u \in users, pk \in Users \cup {"nobody"},
                m \in {"POST", "DELETE"} :
                 subscribe(u, pk, m)

NextRelations == Favorite \/ ShoppingCart \/ Subscribe

SpecRelations == InitRelations /\ [][NextRelations]_vars

\* The favorite endpoint alone, over the same recipes and any set of staff
\* users.
InitFavorite ==
    /\ users = Users
    /\ staff \in SUBSET Users
    /\ ingredients = <<>>
    /\ tags = {}
    /\ recipes = PublishedRecipes
    /\ recipe_tags = {}
    /\ recipe_ingredients = EmptyBag
    /\ media = {}
    /\ now = 0
    /\ favorites = EmptyBag
    /\ carts = EmptyBag
    /\ subscriptions = EmptyBag
    /\ resp = NoResponse
    /\ inflight = NoRequests

SpecFavorite == InitFavorite /\ [][Favorite]_vars

\* ------------------------------------------------- ingredients and recipes

\* The entries data/ingredients.json may hold: name and measurement_unit.
DataEntries ==
    { [name |-> n, measurement_unit |-> m] : n \in Names, m \in Units }

\* The files load_ingredients may find: one entry, in this model.
DataFiles == { <<e>> : e \in DataEntries }

\* The key a new row of table gets.
NewPk(table) ==
    CHOOSE pk \in 1..(Cardinality(DOMAIN table) + 1) :
        /\ pk \notin DOMAIN table
        /\ \A other \in 1..(pk - 1) : other \in DOMAIN table

\* Ingredient.objects.create(name=name, measure_unit=measurement_unit), once
\* for each entry of the file, in order.
RECURSIVE create_each(_, _)
create_each(table, data) ==
    IF data = <<>> THEN table
    ELSE create_each(
            [pk \in DOMAIN table \cup {NewPk(table)} |->
                IF pk \in DOMAIN table THEN table[pk]
                ELSE [name |-> Head(data).name,
                      measure_unit |-> Head(data).measurement_unit]],
            Tail(data))

\* IngredientViewSet.load_ingredients: a GET, open to everybody.
load_ingredients(u, data) ==
    /\ Cardinality(DOMAIN ingredients) + Len(data) <= MaxIngredients
    /\ ingredients' = create_each(ingredients, data)
    /\ resp' = Response("load_ingredients", "GET", u, NoSuchPk, 200, <<>>)
    /\ UNCHANGED <<users, staff, tags, recipes, recipe_tags,
                   recipe_ingredients, favorites, carts, subscriptions,
                   media, now, inflight>>

\* IngredientViewSet.delete_all: open to every authenticated user; the
\* RecipeIngredient rows go with their ingredient (on_delete=CASCADE).
delete_all(u) ==
    /\ ingredients' = <<>>
    /\ recipe_ingredients' = EmptyBag
    /\ resp' = Response("delete_all", "DELETE", u, NoSuchPk, 200, <<>>)
    /\ UNCHANGED <<users, staff, tags, recipes, recipe_tags,
                   favorites, carts, subscriptions, media, now,
                   inflight>>

\* The ingredient lists a recipe request may submit: items {id, amount}.
SpecItems ==
    { [id |-> i, amount |-> a] : i \in 1..MaxIngredients, a \in 0..MaxAmount }

SpecLists ==
    UNION { [1..n -> SpecItems] : n \in 0..MaxSpecs }

\* What a recipe request submits: ingredients, tags and cooking_time; its
\* image is a data:image URL that decodes to an image.
Form(specs, tg, ct) ==
    [ingredients |-> specs, tags |-> tg, cooking_time |-> ct]

\* RecipeCreateSerializer.validate: TRUE when no ValidationError is raised.
validate_amounts_only(specs) ==
    \A k \in DOMAIN specs : ~(specs[k].amount <= 0)

validate(specs) ==
    /\ \A k \in DOMAIN specs : ~(specs[k].amount <= 0)
    /\ Cardinality({ specs[k].id : k \in DOMAIN specs }) = Len(specs)

\* The fields' own validation: PrimaryKeyRelatedField(queryset=Tag.objects)
\* for every tag, validate_cooking_time for cooking_time.
field_errors_of_tags(form) ==
    \E k \in DOMAIN form.tags : form.tags[k] \notin tags

field_errors(form) ==
    \/ \E k \in DOMAIN form.tags : form.tags[k] \notin tags
    \/ form.cooking_time < 1

\* Serializer.is_valid: the fields, then validate.
is_valid_fields_only(form) == ~field_errors(form)

is_valid(form) == ~field_errors(form) /\ validate(form.ingredients)

\* The error a request that is not valid is answered with: the fields'
\* errors, or the first ValidationError validate raises.
errors(form) ==
    IF field_errors(form) THEN "field"
    ELSE IF \E k \in DOMAIN form.ingredients :
                form.ingredients[k].amount <= 0
    THEN "amount"
    ELSE "duplicate"

\* The tables a recipe request writes, as one value.
Db ==
    [recipes |-> recipes, recipe_tags |-> recipe_tags,
     recipe_ingredients |-> recipe_ingredients]

\* create_ingredients: the rows bulk_create writes for recipe pk.
RECURSIVE ingredient_list(_, _)
ingredient_list(specs, pk) ==
    IF specs = <<>> THEN EmptyBag
    ELSE One([recipe |-> pk, ingredient |-> Head(specs).id,
              amount |-> Head(specs).amount])
         (+) ingredient_list(Tail(specs), pk)

\* create_ingredients: get_object_or_404 raises Http404 for an id that names
\* no Ingredient, before bulk_create writes anything.
create_ingredients(db, specs, pk) ==
    IF \E k \in DOMAIN specs : specs[k].id \notin DOMAIN ingredients
    THEN [db |-> db, error |-> TRUE]
    ELSE [db |-> [db EXCEPT !.recipe_ingredients =
                                @ (+) ingredient_list(specs, pk)],
          error |-> FALSE]

\* @transaction.atomic: an exception leaves the tables as they were.
atomic_without_rollback(before, run) == run.db

atomic(before, run) == IF run.error THEN before ELSE run.db

\* The RecipeIngredient rows that are not of recipe pk.
RowsKept(rows, pk) == rows

RowsNotOf(rows, pk) ==
    [ri \in { x \in DOMAIN rows : x.recipe # pk } |-> rows[ri]]

\* instance.tags.set(tags): the through rows of recipe pk become tg's.
tags_set(through, pk, tg) ==
    { rt \in through : rt.recipe # pk }
        \cup { [recipe |-> pk, tag |-> tg[k]] : k \in DOMAIN tg }

\* RecipeCreateSerializer.create, before atomic decides: the tables, whether
\* an exception was raised, and the writes made until then.
create(db, u, form) ==
    LET pk == NewPk(db.recipes)
        db1 == [db EXCEPT !.recipes =
                   [r \in DOMAIN @ \cup {pk} |->
                       IF r = pk
                       THEN [author |-> u,
                             cooking_time |-> form.cooking_time]
                       ELSE @[r]]]
        db2 == [db1 EXCEPT !.recipe_tags = tags_set(@, pk, form.tags)]
        run == create_ingredients(db2, form.ingredients, pk)
    IN  [db |-> run.db, error |-> run.error, pk |-> pk,
         log |-> IF run.error THEN <<"recipe", "tags">>
                 ELSE <<"recipe", "tags", "ingredients">>]

\* RecipeCreateSerializer.update, before atomic decides.
update(db, pk, form) ==
    LET db1 == [db EXCEPT !.recipe_tags =
                   { rt \in @ : rt.recipe # pk }]
        db2 == [db1 EXCEPT !.recipe_tags = tags_set(@, pk, form.tags)]
        db3 == [db2 EXCEPT !.recipe_ingredients = RowsNotOf(@, pk)]
        db4 == [db3 EXCEPT !.recipes[pk].cooking_time = form.cooking_time]
        run == create_ingredients(db4, form.ingredients, pk)
    IN  [db |-> run.db, error |-> run.error, pk |-> pk,
         log |-> IF run.error
                 THEN <<"tags_clear", "tags", "rows_delete", "recipe">>
                 ELSE <<"tags_clear", "tags", "rows_delete", "recipe",
                        "ingredients">>]

\* What a recipe request leaves behind and answers: the tables, the files,
\* the status, the recipe, the error and the writes it made on the way,
\* including those a rollback undid.
Outcome(db, files, status, pk, detail, log) ==
    [db |-> db, media |-> files, status |-> status, pk |-> pk,
     body |-> [detail |-> detail, log |-> log]]

\* Base64ImageField.to_internal_value: the image is written to
\* media/recipes/temp_<now> while the fields are validated.
image_file == media \cup {now}

\* RecipeViewSet.create with RecipeCreateSerializer: is_valid, then create
\* in one transaction.
perform_create(u, form) ==
    IF ~is_valid(form)
    THEN Outcome(Db, image_file, 400, NoSuchPk, errors(form), <<"file">>)
    ELSE LET run == create(Db, u, form)
         IN  IF run.error
             THEN Outcome(atomic(Db, run), image_file, 404, NoSuchPk,
                          "not_found", <<"file">> \o run.log)
             ELSE Outcome(atomic(Db, run), image_file, 201, run.pk,
                          "", <<"file">> \o run.log)

\* RecipeViewSet.update with RecipeCreateSerializer: get_object (404, 403),
\* is_valid, then update in one transaction.
perform_update(u, pk, form) ==
    IF pk \notin DOMAIN recipes
    THEN Outcome(Db, media, 404, pk, "not_found", <<>>)
    ELSE IF ~has_object_permission(u, "PUT", recipes[pk])
    THEN Outcome(Db, media, 403, pk, "forbidden", <<>>)
    ELSE IF ~is_valid(form)
    THEN Outcome(Db, image_file, 400, pk, errors(form), <<"file">>)
    ELSE LET run == update(Db, pk, form)
         IN  Outcome(atomic(Db, run), image_file,
                     IF run.error THEN 404 ELSE 200, pk,
                     IF run.error THEN "not_found" ELSE "",
                     <<"file">> \o run.log)

\* The tables and files after a recipe request with outcome out.
Committed(out) ==
    /\ recipes' = out.db.recipes
    /\ recipe_tags' = out.db.recipe_tags
    /\ recipe_ingredients' = out.db.recipe_ingredients
    /\ media' = out.media
    /\ UNCHANGED <<users, staff, ingredients, tags,
                   favorites, carts, subscriptions, now, inflight>>

create_recipe(u, form) ==
    /\ Cardinality(DOMAIN recipes) < NumRecipes
    /\ LET out == perform_create(u, form)
       IN  /\ Committed(out)
           /\ resp' = Response("create_recipe", "POST", u, out.pk,
                               out.status, out.body)

update_recipe(u, pk, form) ==
    LET out == perform_update(u, pk, form)
    IN  /\ Committed(out)
        /\ resp' = Response("update_recipe", "PUT", u, pk,
                            out.status, out.body)

\* ----------------------------------------------------------- shopping list

\* The order of names under the database's string comparison.
NameRank(name) ==
    CASE name = "salt" -> 1
      [] name = "sugar" -> 2

\* The RecipeIngredient rows the filter
\* recipeingredients__recipe__carts__user=user joins to.
CartRows_of_anyone(u) ==
    { ri \in BagToSet(recipe_ingredients) :
        \E row \in BagToSet(carts) : row.recipe = ri.recipe }

CartRows(u) ==
    { ri \in BagToSet(recipe_ingredients) : BagIn(Row(u, ri.recipe), carts) }

\* How many rows of the join one RecipeIngredient row stands for.
JoinCopies(u, ri) ==
    CopiesIn(ri, recipe_ingredients) * CopiesIn(Row(u, ri.recipe), carts)

\* Sum('recipeingredients__amount') over a set of joined rows.
RECURSIVE SumAmount(_, _)
SumAmount(u, rows) ==
    IF rows = {} THEN 0
    ELSE LET ri == CHOOSE x \in rows : TRUE
         IN  ri.amount * JoinCopies(u, ri) + SumAmount(u, rows \ {ri})

\* .values('name', measurement=F('measure_unit')): the GROUP BY key.
GroupKey(pk) ==
    [name |-> ingredients[pk].name,
     measurement |-> ingredients[pk].measure_unit]

\* .annotate(amount=Coalesce(Sum(...), 0)) and .distinct(): one row for each
\* (name, measure_unit) group.
Lines(u) ==
    LET joined == CartRows(u)
    IN  { [name |-> g.name,
           amount |-> SumAmount(u, { ri \in joined :
                                        GroupKey(ri.ingredient) = g }),
           measurement |-> g.measurement] :
          g \in { GroupKey(ri.ingredient) : ri \in joined } }

\* .order_by('name'): every order of the rows in which names ascend; the
\* order of rows with the same name is left to the database.
OrderBy(rows) ==
    { seq \in [1..Cardinality(rows) -> rows] :
        /\ \A i, j \in DOMAIN seq : i # j => seq[i] # seq[j]
        /\ \A i, j \in DOMAIN seq :
              i < j => NameRank(seq[i].name) <= NameRank(seq[j].name) }

\* The CSV file: the ingredient rows between the heading and footer rows,
\* and the 'Дата:' row with the time of the request.
Document(u, date, body) ==
    [op |-> "download_shopping_cart", method |-> "GET", user |-> u,
     pk |-> NoSuchPk, status |-> 200, body |-> body, date |-> date]

\* RecipeViewSet.download_shopping_cart
download_and_empty_cart(u) ==
    /\ UNCHANGED <<catalogue, inflight, favorites, subscriptions>>
    /\ carts' = [row \in { r \in DOMAIN carts : r.user # u } |-> carts[row]]
    /\ IF ~\E row \in BagToSet(carts) : row.user = u
       THEN resp' = Response("download_shopping_cart", "GET", u, NoSuchPk,
                             400, <<>>)
       ELSE \E body \in OrderBy(Lines(u)) :
               resp' = Document(u, now, body)

download_shopping_cart(u) ==
    /\ UNCHANGED <<store, media, now, inflight>>
    /\ IF ~\E row \in BagToSet(carts) : row.user = u
       THEN resp' = Response("download_shopping_cart", "GET", u, NoSuchPk,
                             400, <<>>)
       ELSE \E body \in OrderBy(Lines(u)) :
               resp' = Document(u, now, body)

\* A second passes.
Tick ==
    /\ now < MaxTime
    /\ now' = now + 1
    /\ UNCHANGED <<store, media, inflight, resp>>

\* ------------------------------------------------------- the shopping spec

\* The empty database.
InitShopping ==
    /\ users = Users
    /\ staff = {}
    /\ ingredients = <<>>
    /\ tags = {}
    /\ recipes = <<>>
    /\ recipe_tags = {}
    /\ recipe_ingredients = EmptyBag
    /\ media = {}
    /\ now = 0
    /\ favorites = EmptyBag
    /\ carts = EmptyBag
    /\ subscriptions = EmptyBag
    /\ resp = NoResponse
    /\ inflight = NoRequests

DeleteAll == \E u \in users : delete_all(u)

Download == \E u \in users : download_shopping_cart(u)

\* In the shopping spec ann publishes the recipes; ann and bob both shop.
AnnPublishes ==
    \E specs \in SpecLists : create_recipe("ann", Form(specs, <<>>, 1))

AnnLoads == \E data \in DataFiles : load_ingredients("ann", data)

NextShopping ==
    AnnLoads \/ DeleteAll \/ AnnPublishes \/ ShoppingCart \/ Download

SpecShopping == InitShopping /\ [][NextShopping]_vars

\* ------------------------------------------------------- the download spec

\* Ingredient tables of two rows loaded from the data file, the first of
\* them (salt, g): the second has the same name and unit, the same name
\* only, or another name.
Larders ==
    { create_each(<<>>, <<[name |-> "salt", measurement_unit |-> "g"], e>>) :
        e \in DataEntries }

\* The form recipe pk of the cookbook was published with.
CookbookForm(pk) ==
    Form(IF pk % 2 = 1
         THEN <<[id |-> 1, amount |-> 1]>>
         ELSE <<[id |-> 1, amount |-> MaxAmount], [id |-> 2, amount |-> 1]>>,
         <<"breakfast">>, 1)

\* The RecipeIngredient rows of the recipes 1..n of the cookbook.
RECURSIVE CookbookRows(_)
CookbookRows(n) ==
    IF n = 0 THEN EmptyBag
    ELSE ingredient_list(CookbookForm(n).ingredients, n)
         (+) CookbookRows(n - 1)

\* A store in which ann and bob have published the cookbook's recipes in
\* turn, at second 0: every table but the carts.
Cookbook ==
    /\ users = Users
    /\ staff = {}
    /\ ingredients \in Larders
    /\ tags = TagPks
    /\ recipes = PublishedRecipes
    /\ recipe_tags = UNION { tags_set({}, pk, CookbookForm(pk).tags) :
                                pk \in 1..NumRecipes }
    /\ recipe_ingredients = CookbookRows(NumRecipes)
    /\ favorites = EmptyBag
    /\ subscriptions = EmptyBag
    /\ media = {0}
    /\ now = 0
    /\ resp = NoResponse
    /\ inflight = NoRequests

\* The cookbook with empty carts, over the ingredient tables in which rows of
\* one name have one unit.
InitDownload ==
    /\ Cookbook
    /\ \A i, j \in DOMAIN ingredients :
          ingredients[i].name = ingredients[j].name
              => ingredients[i].measure_unit = ingredients[j].measure_unit
    /\ carts = EmptyBag

NextDownload == ShoppingCart \/ Download \/ Tick

SpecDownload == InitDownload /\ [][NextDownload]_vars

\* ------------------------------------------------------ the isolation spec

\* The ingredients are salt and sugar; ann has put some of the cookbook's
\* recipes in her cart and downloads her list; bob is the one who adds and
\* removes.
InitIsolation ==
    /\ Cookbook
    /\ ingredients[Len(ingredients)].name = "sugar"
    /\ ingredients[Len(ingredients)].measure_unit = "g"
    /\ carts \in { SetToBag({ Row("ann", pk) : pk \in chosen }) :
                     chosen \in SUBSET (1..NumRecipes) }

BobFavorite == \E pk \in RecipePks, m \in {"POST", "DELETE"} :
                   favorite("bob", pk, m)

BobShoppingCart == \E pk \in RecipePks, m \in {"POST", "DELETE"} :
                       shopping_cart("bob", pk, m)

BobSubscribe == \E pk \in Users \cup {"nobody"}, m \in {"POST", "DELETE"} :
                    subscribe("bob", pk, m)

AnnDownloads == download_shopping_cart("ann")

NextIsolation ==
    BobFavorite \/ BobShoppingCart \/ BobSubscribe \/ AnnDownloads

SpecIsolation == InitIsolation /\ [][NextIsolation]_vars

\* ----------------------------------------------------------------- deletes

\* on_delete=CASCADE: the rows of a table of [user, recipe] that go with the
\* recipes gone, and those that go with user u.
WithoutRecipes(table, gone) ==
    [row \in { x \in DOMAIN table : x.recipe \notin gone } |-> table[row]]

WithoutUser_keeping(table, u) == table

WithoutUser(table, u) ==
    [row \in { x \in DOMAIN table : x.user # u } |-> table[row]]

\* Model.delete() on Recipe rows: the rows of every table that refer to one
\* of them go too.
delete_recipes(gone) ==
    /\ recipes' = [pk \in DOMAIN recipes \ gone |-> recipes[pk]]
    /\ recipe_tags' = { rt \in recipe_tags : rt.recipe \notin gone }
    /\ recipe_ingredients' = WithoutRecipes(recipe_ingredients, gone)

\* RecipeViewSet.destroy: get_object (404, 403), then the recipe is deleted.
destroy_recipe(u, pk) ==
    /\ UNCHANGED <<users, staff, ingredients, tags, subscriptions, media, now,
                   inflight>>
    /\ IF pk \notin DOMAIN recipes
       THEN /\ resp' = Response("destroy_recipe", "DELETE", u, pk, 404, <<>>)
            /\ UNCHANGED <<recipes, recipe_tags, recipe_ingredients,
                           favorites, carts>>
       ELSE IF ~has_object_permission(u, "DELETE", recipes[pk])
       THEN /\ resp' = Response("destroy_recipe", "DELETE", u, pk, 403, <<>>)
            /\ UNCHANGED <<recipes, recipe_tags, recipe_ingredients,
                           favorites, carts>>
       ELSE /\ delete_recipes({pk})
            /\ favorites' = WithoutRecipes(favorites, {pk})
            /\ carts' = WithoutRecipes(carts, {pk})
            /\ resp' = Response("destroy_recipe", "DELETE", u, pk, 204, <<>>)

\* UserViewSet.destroy on the requester's own account: the User row is
\* deleted, and with it the recipes the user wrote and every row that refers
\* to the user or to one of those recipes.
delete_user(u) ==
    LET gone == { pk \in DOMAIN recipes : recipes[pk].author = u }
    IN  /\ users' = users \ {u}
        /\ staff' = staff \ {u}
        /\ delete_recipes(gone)
        /\ favorites' = WithoutUser(WithoutRecipes(favorites, gone), u)
        /\ carts' = WithoutUser(WithoutRecipes(carts, gone), u)
        /\ subscriptions' =
               [row \in { x \in DOMAIN subscriptions :
                            x.user # u /\ x.author # u } |->
                   subscriptions[row]]
        /\ resp' = Response("delete_user", "DELETE", u, NoSuchPk, 204, <<>>)
        /\ UNCHANGED <<ingredients, tags, media, now, inflight>>

\* ------------------------------------------------------- the cascade spec

\* The cookbook with salt and sugar, and empty carts.
InitCascade ==
    /\ Cookbook
    /\ ingredients[Len(ingredients)].name = "sugar"
    /\ ingredients[Len(ingredients)].measure_unit = "g"
    /\ carts = EmptyBag

DeleteUser == \E u \in users : delete_user(u)

DestroyRecipe == \E u \in users, pk \in RecipePks : destroy_recipe(u, pk)

NextCascade ==
    \/ Favorite \/ ShoppingCart \/ Subscribe
    \/ DeleteUser \/ DestroyRecipe \/ DeleteAll

SpecCascade == InitCascade /\ [][NextCascade]_vars

\* ------------------------------------------------------ the validator spec

\* The lists of tag ids validate_tags may be given.
TagIdLists ==
    UNION { [1..n -> TagPks \cup {NoSuchTag}] : n \in 0..MaxTagIds }

\* validators.validate_tags: TRUE when no ValidationError is raised.
validate_tags(tags_ids, Tag) ==
    LET exists_tags == { pk \in Tag :
                           \E k \in DOMAIN tags_ids : tags_ids[k] = pk }
    IN  ~(Cardinality(exists_tags) # Len(tags_ids))

\* A call of validate_tags on the Tag table: 400 for a ValidationError.
call_validate_tags(tags_ids) ==
    /\ resp' = Response("validate_tags", "", "", NoSuchPk,
                        IF validate_tags(tags_ids, tags) THEN 200 ELSE 400,
                        tags_ids)
    /\ UNCHANGED <<store, media, now, inflight>>

\* Any Tag rows; nothing else.
InitValidators ==
    /\ users = Users
    /\ staff = {}
    /\ ingredients = <<>>
    /\ tags \in SUBSET TagPks
    /\ recipes = <<>>
    /\ recipe_tags = {}
    /\ recipe_ingredients = EmptyBag
    /\ favorites = EmptyBag
    /\ carts = EmptyBag
    /\ subscriptions = EmptyBag
    /\ media = {}
    /\ now = 0
    /\ resp = NoResponse
    /\ inflight = NoRequests

ValidateTags == \E tags_ids \in TagIdLists : call_validate_tags(tags_ids)

SpecValidators == InitValidators /\ [][ValidateTags]_vars

\* --------------------------------------------------------- the recipe spec

\* The items of a form's ingredient list: the ids of the Ingredient rows and
\* one id more, with the amounts 0, 1 and MaxAmount.
FormItems ==
    { [id |-> i, amount |-> a] :
        i \in 1..(MaxIngredients + 1), a \in {0, 1, MaxAmount} }

\* A form lists no, one or two items.
FormSpecLists == UNION { [1..n -> FormItems] : n \in {0, 1, 2} }

TagLists ==
    { <<"breakfast">>, <<"dinner", "breakfast">>, <<"breakfast", NoSuchTag>> }

CookingTimes == {1, 2}

Forms ==
    { Form(specs, tg, ct) :
        specs \in FormSpecLists, tg \in TagLists, ct \in CookingTimes }

\* MaxIngredients rows loaded from the data file.
Pantry ==
    [pk \in 1..MaxIngredients |->
        [name |-> IF pk % 2 = 1 THEN "salt" ELSE "sugar",
         measure_unit |-> "g"]]

\* Ingredients and tags are there; no recipe is.
InitRecipes ==
    /\ users = Users
    /\ staff = {}
    /\ ingredients = Pantry
    /\ tags = TagPks
    /\ recipes = <<>>
    /\ recipe_tags = {}
    /\ recipe_ingredients = EmptyBag
    /\ favorites = EmptyBag
    /\ carts = EmptyBag
    /\ subscriptions = EmptyBag
    /\ media = {}
    /\ now = 0
    /\ resp = NoResponse
    /\ inflight = NoRequests

\* ann publishes the first recipe and edits it; bob tries to edit it too.
AnnCreates ==
    /\ recipes = <<>>
    /\ \E form \in Forms : create_recipe("ann", form)

AnnUpdates == \E form \in Forms : update_recipe("ann", 1, form)

BobUpdates == \E pk \in RecipePks : update_recipe("bob", pk, CookbookForm(1))

NextRecipes == AnnCreates \/ AnnUpdates \/ BobUpdates

SpecRecipes == InitRecipes /\ [][NextRecipes]_vars

\* ------------------------------------------------------ the ownership spec

\* The cookbook's recipes over the pantry, with empty carts; any of the users
\* may be staff.
InitOwnership ==
    /\ users = Users
    /\ staff \in SUBSET Users
    /\ ingredients = Pantry
    /\ tags = TagPks
    /\ recipes = PublishedRecipes
    /\ recipe_tags = UNION { tags_set({}, pk, CookbookForm(pk).tags) :
                                pk \in 1..NumRecipes }
    /\ recipe_ingredients = CookbookRows(NumRecipes)
    /\ favorites = EmptyBag
    /\ carts = EmptyBag
    /\ subscriptions = EmptyBag
    /\ media = {0}
    /\ now = 0
    /\ resp = NoResponse
    /\ inflight = NoRequests

\* The forms an edit submits: the forms of the cookbook, one without
\* ingredients, one that names an unknown ingredient and one with a repeated
\* ingredient.
Edits ==
    { CookbookForm(1), CookbookForm(2),
      Form(<<>>, <<"dinner">>, 2),
      Form(<<[id |-> MaxIngredients + 1, amount |-> 1]>>, <<"dinner">>, 1),
      Form(<<[id |-> 1, amount |-> 1], [id |-> 1, amount |-> 1]>>, <<>>, 1) }

UpdateRecipe == \E u \in users, pk \in RecipePks, form \in Edits :
                    update_recipe(u, pk, form)

NextOwnership == UpdateRecipe \/ DestroyRecipe

SpecOwnership == InitOwnership /\ [][NextOwnership]_vars

\* ----------------------------------------------------- concurrent requests

\* The table and the row a request of relation op is about.
RelationTable(op) ==
    CASE op = "favorite" -> favorites
      [] op = "shopping_cart" -> carts
      [] op = "subscribe" -> subscriptions

RelationRow(op, u, pk) ==
    IF op = "subscribe" THEN Follow(u, pk) ELSE Row(u, pk)

\* The handler's steps before it reads the relation's table: get_object or
\* get_object_or_404, the permission of the favorite endpoint, the test
\* author != user. The status it answers with, or 0 when it goes on.
add_refused(op, u, pk) ==
    IF op = "subscribe"
    THEN IF pk \notin users THEN 404
         ELSE IF ~not_self(pk, u) THEN 400 ELSE 0
    ELSE IF pk \notin DOMAIN recipes THEN 404
         ELSE IF op = "favorite"
                 /\ ~has_object_permission(u, "POST", recipes[pk])
         THEN 403 ELSE 0

\* What a POST is answered with once get_or_create has returned.
add_status(op, created) ==
    IF op = "favorite"
    THEN favorite_post_status([error |-> FALSE, created |-> created])
    ELSE 200

\* The tables after a request on relation op has left table new behind.
RelationBecomes(op, new) ==
    /\ favorites' = IF op = "favorite" THEN new ELSE favorites
    /\ carts' = IF op = "shopping_cart" THEN new ELSE carts
    /\ subscriptions' = IF op = "subscribe" THEN new ELSE subscriptions

\* A POST on relation op, up to and including the query self.get(**kwargs)
\* of get_or_create: a request that finds no row goes on to insert one.
add_begin(w, op, u, pk) ==
    /\ inflight[w] = Idle
    /\ UNCHANGED <<catalogue, favorites, carts, subscriptions>>
    /\ IF add_refused(op, u, pk) # 0
       THEN /\ resp' = Response(op, "POST", u, pk, add_refused(op, u, pk),
                                <<>>)
            /\ UNCHANGED inflight
       ELSE LET found == CopiesIn(RelationRow(op, u, pk), RelationTable(op))
            IN  IF found = 0
                THEN /\ inflight' = [inflight EXCEPT ![w] =
                                        [op |-> op, user |-> u, pk |-> pk]]
                     /\ UNCHANGED resp
                ELSE /\ resp' = Response(op, "POST", u, pk,
                                         IF found > 1 THEN 500
                                         ELSE add_status(op, FALSE),
                                         <<>>)
                     /\ UNCHANGED inflight

\* The rest of get_or_create and of the handler: self.create(**params)
\* inserts the row. When another request has inserted the pair since, a
\* database that carries the UniqueConstraint of the model's Meta raises
\* IntegrityError, which get_or_create answers with the row that is there;
\* a database without it (no migration adds it) takes the second row.
add_finish(w) ==
    LET req == inflight[w]
        row == RelationRow(req.op, req.user, req.pk)
    IN  /\ req # Idle
        /\ inflight' = [inflight EXCEPT ![w] = Idle]
        /\ UNCHANGED catalogue
        /\ \E enforced \in BOOLEAN :
              IF BagIn(row, RelationTable(req.op)) /\ enforced
              THEN /\ RelationBecomes(req.op, RelationTable(req.op))
                   /\ resp' = Response(req.op, "POST", req.user, req.pk,
                                       add_status(req.op, FALSE), <<>>)
              ELSE /\ RelationBecomes(req.op,
                                      RelationTable(req.op) (+) One(row))
                   /\ resp' = Response(req.op, "POST", req.user, req.pk,
                                       add_status(req.op, TRUE), <<>>)

\* ------------------------------------------------------------ the race spec

\* ann's requests, served by the two workers: she adds a recipe of her own to
\* her favorites and to her cart, and subscribes to bob.
AddBegin ==
    \E w \in Workers, op \in {"favorite", "shopping_cart", "subscribe"} :
        \E pk \in IF op = "subscribe" THEN Users \cup {"nobody"}
                  ELSE RecipePks :
            add_begin(w, op, "ann", pk)

AddFinish == \E w \in Workers : add_finish(w)

NextRace == AddBegin \/ AddFinish

SpecRace == InitRelations /\ [][NextRace]_vars

\* -------------------------------------------------------- the amounts spec

\* The amounts and cooking times a request may submit: IntegerField takes
\* any integer.
Quantities == {-1, 0, 1, MaxAmount}

AnyItems ==
    { [id |-> i, amount |-> a] : i \in 1..MaxIngredients, a \in Quantities }

AnyForms ==
    { Form(specs, <<"breakfast">>, ct) :
        specs \in UNION { [1..n -> AnyItems] : n \in {0, 1, 2} },
        ct \in {0, 1} }

\* All recipes of the cookbook but the last have been published over the
\* pantry; the store has room for one more.
InitAmounts ==
    /\ users = Users
    /\ staff = {}
    /\ ingredients = Pantry
    /\ tags = TagPks
    /\ recipes = [pk \in 1..(NumRecipes - 1) |-> PublishedRecipes[pk]]
    /\ recipe_tags = UNION { tags_set({}, pk, CookbookForm(pk).tags) :
                                pk \in 1..(NumRecipes - 1) }
    /\ recipe_ingredients = CookbookRows(NumRecipes - 1)
    /\ favorites = EmptyBag
    /\ carts = EmptyBag
    /\ subscriptions = EmptyBag
    /\ media = {0}
    /\ now = 0
    /\ resp = NoResponse
    /\ inflight = NoRequests

\* ann publishes the last recipe, edits it, fills her cart and downloads her
\* list.
AnnCooks == \E form \in AnyForms : create_recipe("ann", form)

AnnRevises == \E form \in AnyForms : update_recipe("ann", NumRecipes, form)

AnnShops == \E pk \in RecipePks, m \in {"POST", "DELETE"} :
                shopping_cart("ann", pk, m)

NextAmounts == AnnCooks \/ AnnRevises \/ AnnShops \/ AnnDownloads

SpecAmounts == InitAmounts /\ [][NextAmounts]_vars

\* ------------------------------------------------------ concurrent updates

\* The Recipe.tags through rows of recipe pk.
ThroughRows(pk) == { rt \in recipe_tags : rt.recipe = pk }

\* The RecipeIngredient rows of recipe pk, as a bag.
IngredientRows(pk) ==
    [ri \in { x \in DOMAIN recipe_ingredients : x.recipe = pk } |->
        recipe_ingredients[ri]]

TagSet(form) == { form.tags[k] : k \in DOMAIN form.tags }

\* A transaction waits for a row another open transaction has deleted, and
\* for a through row another open transaction has inserted: an update of
\* recipe pk with this form cannot run its statements while worker v is in
\* the middle of one that cleared or deleted rows of pk or set one of the
\* form's tags.
WaitsFor(v, pk, form) ==
    /\ inflight[v].op = "update_recipe"
    /\ inflight[v].pk = pk
    /\ \/ inflight[v].cleared # {}
       \/ inflight[v].deleted # EmptyBag
       \/ TagSet(inflight[v].form) \cap TagSet(form) # {}

\* RecipeViewSet.update up to the RecipeIngredient delete of
\* RecipeCreateSerializer.update: get_object (404, 403) and is_valid (400)
\* answer at once; otherwise the transaction opens, instance.tags.clear(),
\* instance.tags.set(tags) and RecipeIngredient.objects.filter(recipe=
\* instance).delete() run on the rows that are committed, and nothing of it
\* shows to other requests before the commit.
update_begin(w, u, pk, form) ==
    /\ inflight[w] = Idle
    /\ IF \/ pk \notin DOMAIN recipes
          \/ ~has_object_permission(u, "PUT", recipes[pk])
          \/ ~is_valid(form)
       THEN update_recipe(u, pk, form)
       ELSE /\ \A v \in Workers \ {w} : ~WaitsFor(v, pk, form)
            /\ media' = image_file
            /\ inflight' = [inflight EXCEPT ![w] =
                               [op |-> "update_recipe", user |-> u,
                                pk |-> pk, form |-> form,
                                cleared |-> ThroughRows(pk),
                                deleted |-> IngredientRows(pk)]]
            /\ UNCHANGED <<store, now, resp>>

\* The rest of RecipeCreateSerializer.update: super().update writes the
\* Recipe row, create_ingredients looks the ingredients up (Http404 rolls
\* the transaction back) and bulk_create inserts the rows; the commit makes
\* the transaction's deletes and inserts the tables' rows.
update_finish(w) ==
    LET req == inflight[w]
        db == [recipes |->
                  [recipes EXCEPT ![req.pk].cooking_time =
                                      req.form.cooking_time],
               recipe_tags |->
                  (recipe_tags \ req.cleared)
                      \cup { [recipe |-> req.pk, tag |-> t] :
                                t \in TagSet(req.form) },
               recipe_ingredients |-> recipe_ingredients (-) req.deleted]
        run == create_ingredients(db, req.form.ingredients, req.pk)
        after == atomic(Db, run)
    IN  /\ req.op = "update_recipe"
        /\ inflight' = [inflight EXCEPT ![w] = Idle]
        /\ recipes' = after.recipes
        /\ recipe_tags' = after.recipe_tags
        /\ recipe_ingredients' = after.recipe_ingredients
        /\ resp' = Response("update_recipe", "PUT", req.user, req.pk,
                            IF run.error THEN 404 ELSE 200,
                            [detail |-> IF run.error THEN "not_found" ELSE "",
                             log |-> <<"file">>
                                     \o update(Db, req.pk, req.form).log])
        /\ UNCHANGED <<users, staff, ingredients, tags, favorites, carts,
                       subscriptions, media, now>>

\* ----------------------------------------------------- the update-race spec

\* ann has published recipe 1 without tags and ingredients over the pantry.
InitUpdateRace ==
    /\ users = Users
    /\ staff = {}
    /\ ingredients = Pantry
    /\ tags = TagPks
    /\ recipes = [pk \in {1} |-> [author |-> "ann", cooking_time |-> 1]]
    /\ recipe_tags = {}
    /\ recipe_ingredients = EmptyBag
    /\ favorites = EmptyBag
    /\ carts = EmptyBag
    /\ subscriptions = EmptyBag
    /\ media = {0}
    /\ now = 0
    /\ resp = NoResponse
    /\ inflight = NoRequests

\* The forms ann edits the recipe with: with and without tags, with one and
\* two ingredients, with none, with an unknown one and with a repeated one.
Drafts ==
    { Form(<<>>, <<>>, 1),
      Form(<<[id |-> 1, amount |-> 1]>>, <<>>, 1),
      Form(<<[id |-> 1, amount |-> MaxAmount], [id |-> 2, amount |-> 1]>>,
           <<>>, 2),
      Form(<<[id |-> 2, amount |-> 1]>>, <<"breakfast">>, 1),
      Form(<<[id |-> MaxIngredients + 1, amount |-> 1]>>, <<"dinner">>, 1),
      Form(<<[id |-> 1, amount |-> 1], [id |-> 1, amount |-> 1]>>, <<>>, 1) }

UpdateBegin == \E w \in Workers, pk \in RecipePks, form \in Drafts :
                   update_begin(w, "ann", pk, form)

UpdateFinish == \E w \in Workers : update_finish(w)

NextUpdateRace == UpdateBegin \/ UpdateFinish

SpecUpdateRace == InitUpdateRace /\ [][NextUpdateRace]_vars

\* --------------------------------------------------------- the toggle spec

\* Every request is made twice: to the favorite endpoint, and then, by the
\* same user for the same recipe with the same method, to the shopping-cart
\* endpoint.
ToggleFavorite ==
    /\ resp.op # "favorite"
    /\ Favorite

ToggleShoppingCart ==
    /\ resp.op = "favorite"
    /\ shopping_cart(resp.user, resp.pk, resp.method)

NextToggle == ToggleFavorite \/ ToggleShoppingCart

SpecToggle == InitFavorite /\ [][NextToggle]_vars

\* ------------------------------------------------------- the username spec

\* A string is the sequence of its characters; these are the letters and
\* the other characters the candidate usernames are written with.
Letters == {"I", "m", "e", "a"}

Characters == Letters \cup {"1"}

Usernames == UNION { [1..n -> Characters] : n \in 0..MaxNameLen }

\* users.validators.validate_username: the value returned, or a
\* ValidationError.
validate_username(value) ==
    IF value = <<"I">> THEN [error |-> TRUE, value |-> <<>>]
    ELSE IF value = <<"m", "e">> THEN [error |-> TRUE, value |-> <<>>]
    ELSE [error |-> FALSE, value |-> value]

\* A call of validate_username: 400 for a ValidationError, else the value
\* it returned.
call_validate_username(value) ==
    /\ resp' = Response("validate_username", "", "", value,
                        IF validate_username(value).error THEN 400 ELSE 200,
                        validate_username(value).value)
    /\ UNCHANGED <<store, media, now, inflight>>

ValidateUsername == \E value \in Usernames : call_validate_username(value)

SpecUsernames == InitShopping /\ [][ValidateUsername]_vars

\* ------------------------------------------------------------ recipe lists

\* The names a lookup on Recipe may start with: its fields and the
\* related_name of every foreign key that points to it.
RecipeLookups ==
    {"id", "author", "pub_date", "name", "image", "text", "ingredients",
     "tags", "cooking_time", "recipeingredients", "favorites_added", "carts"}

\* The rows a reverse relation of Recipe joins to.
Related(name) ==
    CASE name = "favorites_added" -> favorites
      [] name = "carts" -> carts
      [] OTHER -> EmptyBag

\* queryset.filter(<name>__user=u) and queryset.exclude(<name>__user=u) on a
\* queryset of recipes, a bag of primary keys: a name that is no lookup of
\* Recipe raises FieldError; filter returns a recipe once for every row it
\* joins to.
filter_user(queryset, name, u, keep) ==
    IF name \notin RecipeLookups
    THEN [error |-> TRUE, queryset |-> EmptyBag]
    ELSE [error |-> FALSE,
          queryset |->
             IF keep
             THEN [pk \in { x \in DOMAIN queryset :
                               BagIn(Row(u, x), Related(name)) } |->
                      queryset[pk] * CopiesIn(Row(u, pk), Related(name))]
             ELSE [pk \in { x \in DOMAIN queryset :
                               ~BagIn(Row(u, x), Related(name)) } |->
                      queryset[pk]]]

\* RecipeViewSet.get_queryset for an authenticated user without the tags
\* and author parameters; the parameters favorite and shopping_cart are
\* "true", "false" or, when not given, "".
get_queryset(u, params) ==
    LET all == SetToBag(DOMAIN recipes)
        first == IF params.favorite # ""
                 THEN filter_user(all, "favorites_received", u,
                                  params.favorite = "true")
                 ELSE [error |-> FALSE, queryset |-> all]
    IN  IF first.error THEN first
        ELSE IF params.shopping_cart # ""
        THEN filter_user(first.queryset, "in_carts", u,
                         params.shopping_cart = "true")
        ELSE first

\* GET /api/recipes/: the recipes of get_queryset, or 500 for the FieldError.
list_recipes(u, params) ==
    /\ resp' = Response("list_recipes", "GET", u, params,
                        IF get_queryset(u, params).error THEN 500 ELSE 200,
                        get_queryset(u, params).queryset)
    /\ UNCHANGED <<store, media, now, inflight>>

\* -------------------------------------------------------- the listing spec

Params ==
    { [favorite |-> f, shopping_cart |-> c] :
        f \in {"", "true", "false"}, c \in {"", "true", "false"} }

ListRecipes == \E u \in users, params \in Params : list_recipes(u, params)

NextListing == Favorite \/ ShoppingCart \/ ListRecipes

SpecListing == InitRelations /\ [][NextListing]_vars

\* ------------------------------------------- the ingredient-validator spec

\* The lists validator_ingredients may be given: items {id, amount} with
\* integer amounts.
ValidatorItems ==
    { [id |-> i, amount |-> a] :
        i \in 1..(MaxIngredients + 1), a \in Quantities }

ValidatorLists == UNION { [1..n -> ValidatorItems] : n \in {0, 1, 2} }

\* The first loop of validator_ingredients: the dict ingredients_validate,
\* id -> amount, in which the amounts of one id add up; error when a sum is
\* not positive.
RECURSIVE add_up(_, _)
add_up(items, sums) ==
    IF items = <<>> THEN [error |-> FALSE, sums |-> sums]
    ELSE LET ing == Head(items)
             amount == (IF ing.id \in DOMAIN sums THEN sums[ing.id] ELSE 0)
                       + ing.amount
         IN  IF amount <= 0 THEN [error |-> TRUE, sums |-> sums]
             ELSE add_up(Tail(items),
                         [id \in DOMAIN sums \cup {ing.id} |->
                             IF id = ing.id THEN amount ELSE sums[id]])

\* validators.validator_ingredients: a ValidationError, or the dict it
\* returns. The value of an id is the amount and whether the last loop has
\* paired it with its Ingredient row: (Ingredient, amount) or amount alone.
validator_ingredients(items, Ingredient) ==
    LET counted == add_up(items, <<>>)
        ingredients_db == DOMAIN counted.sums \cap DOMAIN Ingredient
    IN  IF counted.error THEN [error |-> TRUE, value |-> <<>>]
        ELSE IF DOMAIN counted.sums = {} THEN [error |-> TRUE, value |-> <<>>]
        ELSE IF ingredients_db = {} THEN [error |-> TRUE, value |-> <<>>]
        ELSE [error |-> FALSE,
              value |-> [id \in DOMAIN counted.sums |->
                            [paired |-> id \in ingredients_db,
                             amount |-> counted.sums[id]]]]

\* A call of validator_ingredients on the Ingredient table: 400 for a
\* ValidationError.
call_validator_ingredients(items) ==
    /\ resp' = Response("validator_ingredients", "", "", items,
                        IF validator_ingredients(items, ingredients).error
                        THEN 400 ELSE 200,
                        validator_ingredients(items, ingredients).value)
    /\ UNCHANGED <<store, media, now, inflight>>

\* The pantry's Ingredient rows; nothing else.
InitIngredientValidator ==
    /\ users = Users
    /\ staff = {}
    /\ ingredients = Pantry
    /\ tags = {}
    /\ recipes = <<>>
    /\ recipe_tags = {}
    /\ recipe_ingredients = EmptyBag
    /\ favorites = EmptyBag
    /\ carts = EmptyBag
    /\ subscriptions = EmptyBag
    /\ media = {}
    /\ now = 0
    /\ resp = NoResponse
    /\ inflight = NoRequests

ValidatorIngredients ==
    \E items \in ValidatorLists : call_validator_ingredients(items)

SpecIngredientValidator ==
    InitIngredientValidator /\ [][ValidatorIngredients]_vars

\* ------------------------------------------------------------------ claims

IsRequest(r, op, method) == r.op = op /\ r.method = method

\* C1: after any sequence of favorite and shopping-cart add/remove requests
\* the Favorite table and the ShoppingCart table each hold at most one row
\* for every (user, recipe) pair.
C1_AtMostOneRowPerPair ==
    /\ \A row \in BagToSet(favorites) : CopiesIn(row, favorites) <= 1
    /\ \A row \in BagToSet(carts) : CopiesIn(row, carts) <= 1

\* A repeated favorite add has just been answered while the same pair is
\* also in the cart.
C1_Witness ==
    /\ IsRequest(resp, "favorite", "POST")
    /\ resp.status = 400
    /\ CopiesIn(Row(resp.user, resp.pk), favorites) = 1
    /\ CopiesIn(Row(resp.user, resp.pk), carts) = 1

\* C2: a favorite add for a pair whose Favorite row exists is answered 400
\* and leaves the Favorite table as it was, with exactly one row for the pair.
C2_DuplicateFavoriteRejected ==
    [][\A u \in Users, pk \in 1..NumRecipes :
        ( /\ BagIn(Row(u, pk), favorites)
          /\ IsRequest(resp', "favorite", "POST")
          /\ resp'.user = u /\ resp'.pk = pk )
        => /\ resp'.status = 400
           /\ UNCHANGED store
           /\ CopiesIn(Row(u, pk), favorites') = 1]_vars

\* A favorite add has been refused as a duplicate by a user who is not the
\* recipe's author.
C2_Witness ==
    /\ IsRequest(resp, "favorite", "POST")
    /\ resp.status = 400
    /\ resp.pk \in DOMAIN recipes
    /\ recipes[resp.pk].author # resp.user
    /\ CopiesIn(Row(resp.user, resp.pk), favorites) = 1

\* C3: a shopping-cart add for a pair whose ShoppingCart row exists is
\* answered 400 and leaves the ShoppingCart table as it was, with exactly one
\* row for the pair.
C3_DuplicateCartRejected ==
    [][\A u \in Users, pk \in 1..NumRecipes :
        ( /\ BagIn(Row(u, pk), carts)
          /\ IsRequest(resp', "shopping_cart", "POST")
          /\ resp'.user = u /\ resp'.pk = pk )
        => /\ resp'.status = 400
           /\ UNCHANGED store
           /\ CopiesIn(Row(u, pk), carts') = 1]_vars

NoSelfSubscription ==
    \A row \in BagToSet(subscriptions) : row.user # row.author

\* C4: subscribe(user = X, author = X) is answered 400 and writes nothing,
\* and no reachable state holds a Subscription row whose user is its author.
C4_SelfSubscribeRejected ==
    /\ []NoSelfSubscription
    /\ [][( /\ IsRequest(resp', "subscribe", "POST")
            /\ resp'.pk = resp'.user )
          => (resp'.status = 400 /\ UNCHANGED store)]_vars

\* A self-subscription has just been refused in a store that holds a
\* subscription.
C4_Witness ==
    /\ IsRequest(resp, "subscribe", "POST")
    /\ resp.pk = resp.user
    /\ resp.status = 400
    /\ subscriptions # EmptyBag

\* C5: a subscribe request for a pair whose Subscription row exists is
\* answered with a duplicate error (400) and leaves the Subscription table as
\* it was, with exactly one row for the pair.
C5_DuplicateSubscribeRejected ==
    [][\A u \in Users, a \in Users :
        ( /\ BagIn(Follow(u, a), subscriptions)
          /\ IsRequest(resp', "subscribe", "POST")
          /\ resp'.user = u /\ resp'.pk = a )
        => /\ resp'.status = 400
           /\ UNCHANGED store
           /\ CopiesIn(Follow(u, a), subscriptions') = 1]_vars

\* C6: in each of the three relations a remove request deletes the row when
\* it is present and, when it is absent, is answered with an error status
\* (not found) and changes no table; an absent row is never reported as
\* removed.
C6_RemoveAbsentIsNotFound ==
    [][\A op \in {"favorite", "shopping_cart", "subscribe"} :
        ( /\ IsRequest(resp', op, "DELETE")
          /\ resp'.status \notin {403, 500}
          /\ \/ op = "subscribe" /\ resp'.pk \in Users \ {resp'.user}
             \/ op # "subscribe" /\ resp'.pk \in DOMAIN recipes )
        => IF BagIn(RelationRow(op, resp'.user, resp'.pk), RelationTable(op))
           THEN ~BagIn(RelationRow(op, resp'.user, resp'.pk),
                       RelationTable(op)')
           ELSE resp'.status >= 400 /\ UNCHANGED store]_vars

IsDocument(r) == IsRequest(r, "download_shopping_cart", "GET") /\ r.status = 200

\* The Ingredient rows that occur in a recipe in u's cart.
CartIngredients(u) == { ri.ingredient : ri \in CartRows(u) }

\* The sum of the amounts of the RecipeIngredient rows of ingredient pk over
\* the recipes in u's cart.
RECURSIVE TotalOf(_)
TotalOf(rows) ==
    IF rows = {} THEN 0
    ELSE LET ri == CHOOSE x \in rows : TRUE
         IN  ri.amount * CopiesIn(ri, recipe_ingredients)
             + TotalOf(rows \ {ri})

IngredientTotal(u, pk) ==
    TotalOf({ ri \in CartRows(u) : ri.ingredient = pk })

\* C7: the downloaded list holds exactly one line for each ingredient that
\* occurs in a recipe in the user's cart, the line's amount is the sum of the
\* amounts of all RecipeIngredient rows of that ingredient over the cart's
\* recipes, and no other line appears.
C7_OneLinePerCartIngredient ==
    IsDocument(resp) =>
        /\ Len(resp.body) = Cardinality(CartIngredients(resp.user))
        /\ \A pk \in CartIngredients(resp.user) :
              \E k \in DOMAIN resp.body :
                 /\ resp.body[k].name = ingredients[pk].name
                 /\ resp.body[k].measurement = ingredients[pk].measure_unit
                 /\ resp.body[k].amount = IngredientTotal(resp.user, pk)
        /\ \A k \in DOMAIN resp.body :
              \E pk \in CartIngredients(resp.user) :
                 /\ resp.body[k].name = ingredients[pk].name
                 /\ resp.body[k].measurement = ingredients[pk].measure_unit

\* The shopping list grouped on the ingredient's primary key: one line for
\* each Ingredient row, as a bag of lines.
RECURSIVE LinesOfIngredients(_, _)
LinesOfIngredients(u, pks) ==
    IF pks = {} THEN EmptyBag
    ELSE LET pk == CHOOSE x \in pks : TRUE
         IN  One([name |-> ingredients[pk].name,
                  amount |-> IngredientTotal(u, pk),
                  measurement |-> ingredients[pk].measure_unit])
             (+) LinesOfIngredients(u, pks \ {pk})

\* C8: in every reachable store and for every user, grouping the shopping
\* list on ingredient id gives the same lines as grouping on (name, unit).
C8_GroupingByIdEqualsByNameUnit ==
    \A u \in Users :
        LinesOfIngredients(u, CartIngredients(u)) = SetToBag(Lines(u))

\* C9: the lines of a downloaded list ascend by ingredient name, and the
\* store admits no other order of them.
C9_OrderDeterminedByStore ==
    IsDocument(resp) =>
        /\ \A i, j \in DOMAIN resp.body :
              i < j => NameRank(resp.body[i].name)
                       <= NameRank(resp.body[j].name)
        /\ OrderBy(Lines(resp.user)) = {resp.body}

\* C10: a download by a user whose cart is empty is answered 400 without a
\* document, and no document is emitted with zero ingredient lines.
C10_NoEmptyDocument ==
    IsRequest(resp, "download_shopping_cart", "GET") =>
        /\ (~\E row \in BagToSet(carts) : row.user = resp.user)
              => (resp.status = 400 /\ resp.body = <<>>)
        /\ resp.status = 200 => Len(resp.body) >= 1

\* A download by the user whose document is the last response: no request
\* was made between the two.
DownloadsAgain ==
    /\ IsDocument(resp)
    /\ IsRequest(resp', "download_shopping_cart", "GET")
    /\ resp'.user = resp.user

Range(seq) == { seq[k] : k \in DOMAIN seq }

OwnCart(u) ==
    [row \in { r \in DOMAIN carts : r.user = u } |-> carts[row]]

\* C12: a request that leaves u's own ShoppingCart rows, the Ingredient
\* table and the RecipeIngredient rows as they were leaves the lines of u's
\* shopping list as they were, whatever it does to other carts, favorites or
\* subscriptions.
C12_ListDependsOnOwnCartOnly ==
    [][\A u \in Users :
        ( /\ OwnCart(u)' = OwnCart(u)
          /\ ingredients' = ingredients
          /\ recipe_ingredients' = recipe_ingredients )
        => Lines(u)' = Lines(u)]_vars

\* Another user's cart has just gained a recipe while a user's own list
\* holds lines.
C12_Witness ==
    /\ IsRequest(resp, "shopping_cart", "POST")
    /\ resp.status = 200
    /\ \E u \in Users \ {resp.user} :
          /\ Lines(u) # {}
          /\ \E row \in BagToSet(carts) :
                row.user = u /\ row.recipe = resp.pk

\* The RecipeIngredient rows of recipe pk in the tables db, as a bag.
RowsOf(db, pk) ==
    [ri \in { x \in DOMAIN db.recipe_ingredients : x.recipe = pk } |->
        db.recipe_ingredients[ri]]

\* The tags of recipe pk in the tables db.
TagsOf(db, pk) == { rt.tag : rt \in { x \in db.recipe_tags : x.recipe = pk } }

\* The row a spec stands for in recipe pk.
RowFor(item, pk) ==
    [recipe |-> pk, ingredient |-> item.id, amount |-> item.amount]

\* The rows of recipe pk in db are the specs, one row for each.
RowsAreSpecs(db, pk, specs) ==
    /\ BagCardinality(RowsOf(db, pk)) = Len(specs)
    /\ Len(specs) = Cardinality({ specs[k].id : k \in DOMAIN specs })
    /\ \A k \in DOMAIN specs : CopiesIn(RowFor(specs[k], pk), db.recipe_ingredients) = 1
    /\ \A ri \in DOMAIN RowsOf(db, pk) :
          \E k \in DOMAIN specs : ri = RowFor(specs[k], pk)

\* C13: in every reachable store, a create request that succeeds with N
\* ingredient specs leaves exactly N RecipeIngredient rows of the new recipe,
\* N is the number of distinct ingredient ids submitted, and every spec has
\* its one row with the submitted amount.
C13_CreatedRowsAreTheSpecs ==
    \A u \in Users, form \in Forms :
        LET out == perform_create(u, form)
        IN  out.status = 201 =>
                RowsAreSpecs(out.db, out.pk, form.ingredients)

\* A recipe has just been created with two rows of different amounts.
C13_Witness ==
    /\ IsRequest(resp, "create_recipe", "POST")
    /\ resp.status = 201
    /\ BagCardinality(RowsOf(Db, resp.pk)) = 2
    /\ \E x, y \in DOMAIN RowsOf(Db, resp.pk) : x.amount # y.amount

\* The specs name an ingredient id twice or give an amount below 1.
BadSpecs(specs) ==
    \/ \E j, k \in DOMAIN specs : j # k /\ specs[j].id = specs[k].id
    \/ \E k \in DOMAIN specs : specs[k].amount < 1

\* C14: in every reachable store, a create or update request whose specs
\* name an ingredient id twice or give an amount below 1 writes no Recipe,
\* tag or RecipeIngredient row, and is answered 400 whenever the requester
\* may write the recipe.
C14_BadSpecsRejected ==
    \A u \in Users, form \in Forms :
        BadSpecs(form.ingredients) =>
            /\ LET out == perform_create(u, form)
               IN  out.status = 400 /\ out.db = Db
            /\ \A pk \in DOMAIN recipes :
                  LET out == perform_update(u, pk, form)
                  IN  /\ out.db = Db
                      /\ has_object_permission(u, "PUT", recipes[pk])
                            => out.status = 400

\* An update of a recipe that has rows and tags has just been refused for a
\* duplicate ingredient.
C14_Witness ==
    /\ IsRequest(resp, "update_recipe", "PUT")
    /\ resp.status = 400
    /\ resp.body.detail = "duplicate"
    /\ resp.pk \in DOMAIN recipes
    /\ BagCardinality(RowsOf(Db, resp.pk)) >= 1
    /\ TagsOf(Db, resp.pk) # {}

\* The specs name an id that references no Ingredient row.
UnknownIngredient(specs) ==
    \E k \in DOMAIN specs : specs[k].id \notin DOMAIN ingredients

\* C15: a create or update request whose specs name an id that references no
\* Ingredient is answered 400 and leaves no Recipe, tag or RecipeIngredient
\* row it wrote.
C15_UnknownIngredientRejected ==
    [][\A u \in Users, form \in Forms :
        UnknownIngredient(form.ingredients) =>
            /\ create_recipe(u, form)
                  => (resp'.status = 400 /\ UNCHANGED store)
            /\ \A pk \in DOMAIN recipes :
                  ( /\ has_object_permission(u, "PUT", recipes[pk])
                    /\ update_recipe(u, pk, form) )
                  => (resp'.status = 400 /\ UNCHANGED store)]_vars

\* C17: in every reachable store, a create or update request that fails
\* after its first write to a table leaves the tables as they were.
C17_FailureAfterWriteRollsBack ==
    \A u \in Users, form \in Forms :
        /\ LET out == perform_create(u, form)
           IN  (out.status >= 400 /\ Len(out.body.log) > 1) => out.db = Db
        /\ \A pk \in DOMAIN recipes :
              LET out == perform_update(u, pk, form)
              IN  (out.status >= 400 /\ Len(out.body.log) > 1)
                      => out.db = Db

\* An update has just failed after it had cleared and set the tags and
\* deleted the rows of a recipe that has both.
C17_Witness ==
    /\ IsRequest(resp, "update_recipe", "PUT")
    /\ resp.status = 404
    /\ Len(resp.body.log) > 1
    /\ BagCardinality(RowsOf(Db, resp.pk)) >= 1
    /\ TagsOf(Db, resp.pk) # {}

\* C18: a create or update request that is answered with a validation
\* failure has made no write before the failure was detected: no file, no
\* row.
C18_ValidationBeforeFirstWrite ==
    [][( /\ resp'.op \in {"create_recipe", "update_recipe"}
         /\ resp'.status \in {400, 404} )
       => (resp'.body.log = <<>> /\ media' = media)]_vars

\* C19: in every reachable store, an update request that succeeds leaves the
\* recipe with exactly the submitted tags and exactly the submitted specs as
\* its RecipeIngredient rows.
C19_UpdateReplaces ==
    \A u \in Users, form \in Forms, pk \in DOMAIN recipes :
        LET out == perform_update(u, pk, form)
        IN  out.status = 200 =>
                /\ TagsOf(out.db, pk)
                       = { form.tags[k] : k \in DOMAIN form.tags }
                /\ RowsAreSpecs(out.db, pk, form.ingredients)
                /\ RowsOf(out.db, pk) = ingredient_list(form.ingredients, pk)

\* An update has just left a recipe with one tag and one row.
C19_Witness ==
    /\ IsRequest(resp, "update_recipe", "PUT")
    /\ resp.status = 200
    /\ TagsOf(Db, resp.pk) = {"breakfast"}
    /\ BagCardinality(RowsOf(Db, resp.pk)) = 1

\* C16: validate_tags fails exactly when a submitted tag id references no
\* Tag row: a list in which every id references a Tag is accepted, and a
\* list with an id that references none is refused.
C16_UnknownTagIffRefused ==
    IsRequest(resp, "validate_tags", "") =>
        ( resp.status = 400
          <=> \E k \in DOMAIN resp.body : resp.body[k] \notin tags )

\* Every row refers to rows that exist.
ReferentialIntegrity ==
    /\ staff \subseteq users
    /\ \A pk \in DOMAIN recipes : recipes[pk].author \in users
    /\ \A rt \in recipe_tags : rt.recipe \in DOMAIN recipes /\ rt.tag \in tags
    /\ \A ri \in DOMAIN recipe_ingredients :
          ri.recipe \in DOMAIN recipes /\ ri.ingredient \in DOMAIN ingredients
    /\ \A row \in DOMAIN favorites \cup DOMAIN carts :
          row.user \in users /\ row.recipe \in DOMAIN recipes
    /\ \A row \in DOMAIN subscriptions :
          row.user \in users /\ row.author \in users

\* After the step no Recipe of user u remains, and no row refers to u or to
\* a recipe that u had written.
GoneWithUser(u) ==
    LET written == { pk \in DOMAIN recipes : recipes[pk].author = u }
    IN  /\ \A pk \in DOMAIN recipes' : recipes'[pk].author # u
        /\ \A rt \in recipe_tags' : rt.recipe \notin written
        /\ \A ri \in DOMAIN recipe_ingredients' : ri.recipe \notin written
        /\ \A row \in DOMAIN favorites' \cup DOMAIN carts' :
              row.user # u /\ row.recipe \notin written
        /\ \A row \in DOMAIN subscriptions' :
              row.user # u /\ row.author # u

\* C20: the deletion of user U leaves no Recipe that U wrote and no
\* RecipeIngredient, Favorite, ShoppingCart or Subscription row that refers
\* to U or to a recipe U wrote; and in every reachable store every row
\* refers to a user, recipe, tag and ingredient that exists.
C20_DeletionCascades ==
    /\ []ReferentialIntegrity
    /\ [][IsRequest(resp', "delete_user", "DELETE") /\ resp'.user \in users
             => GoneWithUser(resp'.user)]_vars

\* A user has just been deleted; recipes, cart rows and ingredient rows of
\* the other user remain.
C20_Witness ==
    /\ IsRequest(resp, "delete_user", "DELETE")
    /\ resp.user \notin users
    /\ users # {}
    /\ recipes # <<>>
    /\ carts # EmptyBag
    /\ recipe_ingredients # EmptyBag

\* The request the step answers is an update or a delete of a recipe that
\* exists, made by a user who is neither its author nor staff.
ByStranger ==
    /\ resp'.op \in {"update_recipe", "destroy_recipe"}
    /\ resp'.pk \in DOMAIN recipes
    /\ recipes[resp'.pk].author # resp'.user
    /\ resp'.user \notin staff

\* C21: an update or delete of a recipe requested by a user who is neither
\* the recipe's author nor staff is answered 403 and leaves every table and
\* the media files as they were.
C21_StrangerRefused ==
    [][ByStranger => (resp'.status = 403 /\ UNCHANGED <<store, media>>)]_vars

\* A user who is neither author nor staff has just been refused the deletion
\* of a recipe that has tags and ingredient rows, while somebody else is
\* staff.
C21_Witness ==
    /\ IsRequest(resp, "destroy_recipe", "DELETE")
    /\ resp.status = 403
    /\ resp.pk \in DOMAIN recipes
    /\ recipes[resp.pk].author # resp.user
    /\ resp.user \notin staff
    /\ staff # {}
    /\ TagsOf(Db, resp.pk) # {}
    /\ BagCardinality(RowsOf(Db, resp.pk)) >= 1

\* Worker w completes an add on relation op whose pair another request has
\* inserted since w looked for it.
LosesRace(w, op) ==
    /\ inflight[w].op = op
    /\ inflight'[w] = Idle
    /\ BagIn(RelationRow(op, inflight[w].user, inflight[w].pk),
             RelationTable(op))

AtMostOneRow(table) == \A row \in BagToSet(table) : CopiesIn(row, table) <= 1

\* C22: for any interleaving of two concurrent add requests for the same
\* pair the table ends with exactly one row for the pair, and the request
\* that loses the race is answered with the duplicate error (400).
C22_RaceLeavesOneRowAndDuplicateError ==
    /\ [](AtMostOneRow(favorites) /\ AtMostOneRow(carts)
            /\ AtMostOneRow(subscriptions))
    /\ [][\A w \in Workers,
             op \in {"favorite", "shopping_cart", "subscribe"} :
            LosesRace(w, op) =>
                /\ resp'.status = 400
                /\ CopiesIn(RelationRow(op, inflight[w].user, inflight[w].pk),
                            RelationTable(op)') = 1]_vars

\* C23: in every reachable state every Recipe has cooking_time >= 1 and
\* every RecipeIngredient row has amount >= 1, and every total amount in a
\* downloaded shopping list is >= 1.
C23_TimesAndAmountsPositive ==
    /\ \A pk \in DOMAIN recipes : recipes[pk].cooking_time >= 1
    /\ \A ri \in DOMAIN recipe_ingredients : ri.amount >= 1
    /\ \A u \in Users : \A line \in Lines(u) : line.amount >= 1
    /\ IsDocument(resp) =>
          \A k \in DOMAIN resp.body : resp.body[k].amount >= 1

\* A list has been downloaded whose cart holds a recipe published by a
\* request, and one of its totals adds up rows of two recipes.
C23_Witness ==
    /\ IsDocument(resp)
    /\ NumRecipes \in DOMAIN recipes
    /\ BagIn(Row(resp.user, NumRecipes), carts)
    /\ BagCardinality(RowsOf(Db, NumRecipes)) >= 1
    /\ \E k \in DOMAIN resp.body :
          \A ri \in DOMAIN recipe_ingredients :
             resp.body[k].amount > ri.amount

\* C24: in every reachable state, including states reached by interleaving
\* two concurrent updates of the same recipe, a recipe has at most one
\* RecipeIngredient row per ingredient and its ingredient rows equal the
\* specs submitted by a single request.
C24_RowsOfOneRequest ==
    \A pk \in DOMAIN recipes :
        /\ \A x, y \in DOMAIN RowsOf(Db, pk) :
              x.ingredient = y.ingredient => x = y
        /\ \A x \in DOMAIN RowsOf(Db, pk) :
              CopiesIn(x, recipe_ingredients) = 1
        /\ \E form \in Drafts :
              RowsOf(Db, pk) = ingredient_list(form.ingredients, pk)

\* C25: for every sequence of add and remove requests made to both the
\* favorite and the shopping-cart endpoint, the two endpoints answer each
\* request with the same status and leave the same pairs in their tables.
C25_TogglesAgree ==
    [][resp'.op = "shopping_cart" =>
          (resp'.status = resp.status /\ carts' = favorites')]_vars

\* C26: a favorite add by any user for any existing recipe, also one that
\* another user wrote, for which no Favorite row of the pair exists, succeeds
\* and creates exactly that row.
C26_AnyUserMayFavorite ==
    [][( /\ IsRequest(resp', "favorite", "POST")
         /\ resp'.pk \in DOMAIN recipes
         /\ ~BagIn(Row(resp'.user, resp'.pk), favorites) )
       => /\ resp'.status = 200
          /\ favorites' = favorites (+) One(Row(resp'.user, resp'.pk))]_vars

\* The value is a single character, is the reserved word "me" or contains a
\* character that is not a letter.
BadUsername(value) ==
    \/ Len(value) = 1
    \/ value = <<"m", "e">>
    \/ \E k \in DOMAIN value : value[k] \notin Letters

\* C27: validate_username fails with a validation error for every value
\* that is a single character, equals "me" or contains a non-alphabetic
\* character, and returns every other value unchanged.
C27_UsernameRules ==
    IsRequest(resp, "validate_username", "") =>
        IF BadUsername(resp.pk)
        THEN resp.status = 400
        ELSE resp.status = 200 /\ resp.body = resp.pk

\* The recipes a list request of user u with the parameters params is to
\* return.
Listed(u, params) ==
    { pk \in DOMAIN recipes :
        /\ params.favorite = "true" => BagIn(Row(u, pk), favorites)
        /\ params.favorite = "false" => ~BagIn(Row(u, pk), favorites)
        /\ params.shopping_cart = "true" => BagIn(Row(u, pk), carts)
        /\ params.shopping_cart = "false" => ~BagIn(Row(u, pk), carts) }

\* C28: a list request of an authenticated user U with the favorite filter
\* returns exactly the recipes with a Favorite row of U when it is true and
\* exactly those without when it is false, likewise the shopping-cart filter
\* over U's ShoppingCart rows, and returns each of them once.
C28_FiltersSelectOwnRows ==
    IsRequest(resp, "list_recipes", "GET") =>
        /\ resp.status = 200
        /\ resp.body = SetToBag(Listed(resp.user, resp.pk))

\* C29: no request of a user who is not staff adds, changes or deletes an
\* Ingredient row, and none removes a RecipeIngredient row of a recipe that
\* another user wrote.
C29_IngredientsAreAdminOnly ==
    [][resp'.user \notin staff =>
          /\ ingredients' = ingredients
          /\ \A ri \in DOMAIN recipe_ingredients :
                recipes[ri.recipe].author # resp'.user
                    => CopiesIn(ri, recipe_ingredients')
                           = CopiesIn(ri, recipe_ingredients)]_vars

\* C30: validator_ingredients raises ValidationError whenever the list holds
\* an item whose amount is zero or negative or whose id names no Ingredient
\* row; when it returns, every submitted id is mapped to a pair
\* (Ingredient, amount).
C30_ValidatorRefusesBadItems ==
    IsRequest(resp, "validator_ingredients", "") =>
        /\ ( \E k \in DOMAIN resp.pk :
                \/ resp.pk[k].amount <= 0
                \/ resp.pk[k].id \notin DOMAIN ingredients )
              => resp.status = 400
        /\ resp.status = 200 =>
              \A k \in DOMAIN resp.pk :
                 /\ resp.pk[k].id \in DOMAIN resp.body
                 /\ resp.body[resp.pk[k].id].paired

====
